---- MODULE Spec2Model ----
(***************************************************************************)
(* The real-time price-streaming client of the dashboard                   *)
(* (src/contexts/WebSocketContext.tsx, WebSocketProvider).                 *)
(*                                                                         *)
(* The provider's React state and refs are the variables; every callback   *)
(* of the provider (connect, the transport's onopen / onmessage / onerror  *)
(* / onclose handlers, the authentication message handler and timeout,     *)
(* subscribe, unsubscribe, the mount effect and its cleanup) is one        *)
(* action.  A callback runs to completion on the single event loop, and    *)
(* the continuation of `await authenticate(ws)` is a microtask of the task *)
(* that resolved the promise, so it belongs to the same action.  A state   *)
(* setter takes effect with the handler that calls it.                     *)
(*                                                                         *)
(* Transports are the WebSocket objects the client creates; each keeps its *)
(* own readyState, and its handlers close over it (`ws`), not over wsRef.  *)
(***************************************************************************)
EXTENDS Integers, Sequences, FiniteSets, TLC

\* ------------------------------------------------------------- bounds
MaxTransports == 3      \* transports the client may create in one run
MaxLen == 2             \* longest symbol list passed to subscribe / unsubscribe
MaxSigning == 1         \* challenges whose signature is being computed, per transport
MaxClock == 3           \* the clock runs from 0 to MaxClock half days

Symbols == {"A", "B"}
Transports == 1..MaxTransports
NoSocket == 0           \* wsRef.current = null; reconnectTimeoutRef.current = null

\* The symbol lists a consumer may pass (repetitions included).
InputLists == UNION {[1..n -> Symbols] : n \in 0..MaxLen}

Range(seq) == {seq[i] : i \in DOMAIN seq}

\* Strings whose characters matter are sequences of one-character strings.
NoKey == <<>>                               \* apiKey undefined or ""
Credential == <<"k", "1">>                  \* a configured apiKey
Challenges == {<<"a", "b", "c">>, <<"x", "y">>}
ChallengeIds == {"1", "2"}

\* ------------------------------------------------------------- price cache
CACHE_EXPIRY_MS == 24 * 60 * 60 * 1000
HalfDay == 12 * 60 * 60 * 1000              \* the step of the model's clock
Times == {k * HalfDay : k \in 0..MaxClock}  \* values of Date.now()

PriceValues == {1, 2}
\* Record<string, number>: a price for some of the symbols.
PriceMaps == UNION {[D -> PriceValues] : D \in SUBSET Symbols}
EmptyMap == <<>>                            \* {}

\* What localStorage holds under PRICE_CACHE_KEY: nothing, text that is not
\* JSON, or the JSON text of {data, timestamp} (a finite number and a string
\* key come back from JSON.parse as JSON.stringify was given them, so the
\* snapshot is kept as the value it denotes); or the storage cannot be
\* accessed at all (the browser denies it: getItem and setItem throw).
NoItem == [kind |-> "none"]
CorruptItem == [kind |-> "corrupt"]
UnreadableItem == [kind |-> "unreadable"]
\* The stored items with which loading fails or finds nothing.
FailedItems == {NoItem, CorruptItem, UnreadableItem}
Snapshot(data, timestamp) ==
    [kind |-> "snapshot", data |-> data, timestamp |-> timestamp]
StoredItems == FailedItems \cup
               {Snapshot(d, ts) : d \in PriceMaps, ts \in {0, HalfDay}}

\* Mutant of loadCache: the age of the snapshot is not looked at.
loadCacheAnyAge(item, t) ==
    IF item.kind = "snapshot" THEN item.data ELSE EmptyMap

\* Mutant of loadCache: text that cannot be parsed is taken for a price map.
loadCacheAdoptsCorrupt(item, t) ==
    IF item.kind = "snapshot"
    THEN IF t - item.timestamp < CACHE_EXPIRY_MS THEN item.data ELSE EmptyMap
    ELSE IF item.kind = "corrupt" THEN [x \in {"A"} |-> 1]
    ELSE EmptyMap

\* The initializer of the prices state: the snapshot's data if there is a
\* snapshot and it is younger than CACHE_EXPIRY_MS, {} otherwise (also when
\* getItem or JSON.parse throws).
loadCache(item, t) ==
    IF item.kind = "snapshot"
    THEN IF t - item.timestamp < CACHE_EXPIRY_MS THEN item.data ELSE EmptyMap
    ELSE EmptyMap

\* ------------------------------------------------------------- sha256
\* new TextEncoder().encode(message), for the characters the model uses.
CharCode == [c \in {"a", "b", "c", "x", "y", "k", "1", ":"} |->
                CASE c = "a" -> 97  [] c = "b" -> 98  [] c = "c" -> 99
                  [] c = "x" -> 120 [] c = "y" -> 121 [] c = "k" -> 107
                  [] c = "1" -> 49  [] c = ":" -> 58]
encode(message) == [i \in DOMAIN message |-> CharCode[message[i]]]

\* crypto.subtle.digest('SHA-256', msgBuffer): the digests of the messages the
\* model signs ("abc:k1" and "xy:k1").
digest(msgBuffer) ==
    CASE msgBuffer = <<97, 98, 99, 58, 107, 49>> ->
           <<248, 135, 248, 4, 191, 198, 52, 211, 68, 127, 138, 223, 42, 254,
             106, 62, 136, 55, 135, 212, 216, 147, 77, 40, 198, 231, 47, 116,
             119, 111, 237, 116>>
      [] msgBuffer = <<120, 121, 58, 107, 49>> ->
           <<64, 71, 91, 10, 221, 61, 118, 96, 91, 93, 6, 186, 41, 201, 131,
             132, 75, 30, 155, 23, 159, 131, 181, 174, 52, 35, 115, 228, 250,
             239, 62, 219>>

Base64Alphabet ==
    <<"A", "B", "C", "D", "E", "F", "G", "H", "I", "J", "K", "L", "M", "N", "O",
      "P", "Q", "R", "S", "T", "U", "V", "W", "X", "Y", "Z", "a", "b", "c", "d",
      "e", "f", "g", "h", "i", "j", "k", "l", "m", "n", "o", "p", "q", "r", "s",
      "t", "u", "v", "w", "x", "y", "z", "0", "1", "2", "3", "4", "5", "6", "7",
      "8", "9", "+", "/">>
HexDigits == <<"0", "1", "2", "3", "4", "5", "6", "7", "8", "9", "a", "b", "c",
               "d", "e", "f">>

\* btoa(String.fromCharCode(...bytes)): three bytes make four characters, and
\* a last group of one or two bytes is padded with "=".
RECURSIVE btoa(_)
btoa(bytes) ==
    LET ch(n) == Base64Alphabet[n + 1] IN
    IF Len(bytes) = 0 THEN <<>>
    ELSE IF Len(bytes) = 1
    THEN <<ch(bytes[1] \div 4), ch((bytes[1] % 4) * 16), "=", "=">>
    ELSE IF Len(bytes) = 2
    THEN <<ch(bytes[1] \div 4),
           ch(((bytes[1] % 4) * 16) + (bytes[2] \div 16)),
           ch((bytes[2] % 16) * 4), "=">>
    ELSE <<ch(bytes[1] \div 4),
           ch(((bytes[1] % 4) * 16) + (bytes[2] \div 16)),
           ch(((bytes[2] % 16) * 4) + (bytes[3] \div 64)),
           ch(bytes[3] % 64)>> \o btoa(SubSeq(bytes, 4, Len(bytes)))

\* Mutant of sha256: the digest is written in hexadecimal.
RECURSIVE hexOf(_)
hexOf(bytes) ==
    IF Len(bytes) = 0 THEN <<>>
    ELSE <<HexDigits[(bytes[1] \div 16) + 1], HexDigits[(bytes[1] % 16) + 1]>>
            \o hexOf(Tail(bytes))
sha256Hex(message) == hexOf(digest(encode(message)))

\* sha256(message): the base64 text of the SHA-256 digest of the message.
sha256(message) == btoa(digest(encode(message)))

\* The template string `${challenge}:${apiKey}`.
signedText(challenge, key) == challenge \o <<":">> \o key

\* ------------------------------------------------------------- state
VARIABLES
    enabled,                  \* prop enabled
    url,                      \* prop url: "" (empty), "bad" (not a WebSocket URL), "ok"
    apiKey,                   \* prop apiKey: NoKey or the credential
    phase,                    \* "init" (constructed), "mounted", "unmounted"
    isConnected,              \* useState
    error,                    \* useState: "null" or the message
    isAuthenticated,          \* useState
    sessionToken,             \* useState: "null" or "tok"
    wsRef,                    \* useRef: a transport or NoSocket
    reconnectTimeoutRef,      \* useRef: the id of the last reconnect timer set
    subscribedSymbols,        \* useRef<Set>: the registry, in insertion order
    authenticationInProgress, \* useRef
    connectionInProgress,     \* useRef
    sockets,                  \* the WebSocket objects created so far
    nws,                      \* how many were created
    timers,                   \* pending reconnect timers (ids)
    prices,                   \* useState: the price map
    storage,                  \* localStorage[PRICE_CACHE_KEY]
    now,                      \* Date.now()
    out,                      \* the message this step put on the wire (NoMsg if none)
    lastOp                    \* the operation this step performed (and, of a
                              \* price_update, the symbol and price it carried)

cfgVars == <<enabled, url, apiKey>>
vars == <<enabled, url, apiKey, phase, isConnected, error, isAuthenticated,
          sessionToken, wsRef, reconnectTimeoutRef, subscribedSymbols,
          authenticationInProgress, connectionInProgress, sockets, nws,
          timers, prices, storage, now, out, lastOp>>

NoMsg == [ws |-> NoSocket, action |-> "none", symbols |-> <<>>]

\* A WebSocket object: readyState; the code its close event will carry; the
\* state of the handshake promise of authenticate(ws); whether messageHandler
\* is registered on it; whether its authTimeout is armed; the symbols the
\* server has been told to stream on it; and the challenges whose signature
\* messageHandler is awaiting (`await sha256(...)`), oldest first.
FreshSocket == [readyState |-> "NONE", closeCode |-> 0, hs |-> "none",
                listener |-> FALSE, authTimer |-> FALSE, wire |-> {},
                signing |-> <<>>]

\* The mutable program state as one record, threaded through the handlers.
Cur == [isConnected |-> isConnected, error |-> error,
        isAuthenticated |-> isAuthenticated, sessionToken |-> sessionToken,
        wsRef |-> wsRef, reconnectTimeoutRef |-> reconnectTimeoutRef,
        subscribedSymbols |-> subscribedSymbols,
        authenticationInProgress |-> authenticationInProgress,
        connectionInProgress |-> connectionInProgress,
        sockets |-> sockets, nws |-> nws, timers |-> timers,
        prices |-> prices, storage |-> storage, out |-> NoMsg]

Commit(st, op) ==
    /\ isConnected' = st.isConnected
    /\ error' = st.error
    /\ isAuthenticated' = st.isAuthenticated
    /\ sessionToken' = st.sessionToken
    /\ wsRef' = st.wsRef
    /\ reconnectTimeoutRef' = st.reconnectTimeoutRef
    /\ subscribedSymbols' = st.subscribedSymbols
    /\ authenticationInProgress' = st.authenticationInProgress
    /\ connectionInProgress' = st.connectionInProgress
    /\ sockets' = st.sockets
    /\ nws' = st.nws
    /\ timers' = st.timers
    /\ prices' = st.prices
    /\ storage' = st.storage
    /\ out' = st.out
    /\ lastOp' = op
    /\ UNCHANGED <<cfgVars, now>>

Op(name, t) == [op |-> name, ws |-> t]

\* ------------------------------------------------------------- WebSocket
\* ws.close(code): an OPEN transport starts the closing handshake and its
\* close event will carry the given code (1005 when close() names none); a
\* CONNECTING one is failed (close event 1006); otherwise nothing happens.
\* A signature still awaited for the transport will be passed to send() on a
\* transport that is no longer OPEN, which discards it: it is dropped here.
closeCall(st, t, code) ==
    LET s == st.sockets[t] IN
    IF s.readyState = "OPEN"
    THEN [st EXCEPT !.sockets[t].readyState = "CLOSING", !.sockets[t].closeCode = code,
                    !.sockets[t].signing = <<>>]
    ELSE IF s.readyState = "CONNECTING"
    THEN [st EXCEPT !.sockets[t].readyState = "CLOSING", !.sockets[t].closeCode = 1006]
    ELSE st

\* What a message does to the server's view of the transport's subscriptions.
wireAfter(w, action, symbols) ==
    IF action = "subscribe" THEN w \cup Range(symbols)
    ELSE IF action = "unsubscribe" THEN w \ Range(symbols)
    ELSE w

\* ws.send(JSON.stringify({action, symbols})): a transport that is not OPEN
\* discards the data.
send(st, t, action, symbols) ==
    IF st.sockets[t].readyState = "OPEN"
    THEN [st EXCEPT !.out = [ws |-> t, action |-> action, symbols |-> symbols],
                    !.sockets[t].wire = wireAfter(@, action, symbols)]
    ELSE st

\* ws.send(JSON.stringify({action: 'authenticate', auth_data}))
sendAuth(st, t, auth_data) ==
    IF st.sockets[t].readyState = "OPEN"
    THEN [st EXCEPT !.out = [ws |-> t, action |-> "authenticate",
                             auth_data |-> auth_data]]
    ELSE st

\* ------------------------------------------------------------- registry
has(reg, s) == s \in Range(reg)

\* Mutant of newSymbolsOf: the filter is missing.
newSymbolsUnfiltered(reg, symbols) == symbols

\* symbols.filter(symbol => !subscribedSymbolsRef.current.has(symbol))
newSymbolsOf(reg, symbols) == SelectSeq(symbols, LAMBDA s : ~has(reg, s))

\* Mutant of subscribedToRemoveOf: the filter is missing.
subscribedToRemoveUnfiltered(reg, symbols) == symbols

\* symbols.filter(symbol => subscribedSymbolsRef.current.has(symbol))
subscribedToRemoveOf(reg, symbols) == SelectSeq(symbols, LAMBDA s : has(reg, s))

\* list.forEach(symbol => set.add(symbol)): a Set keeps insertion order and
\* holds each member once.
RECURSIVE addAll(_, _)
addAll(reg, list) ==
    IF list = <<>> THEN reg
    ELSE addAll(IF has(reg, Head(list)) THEN reg ELSE Append(reg, Head(list)),
                Tail(list))

\* list.forEach(symbol => set.delete(symbol))
deleteAll(reg, list) == SelectSeq(reg, LAMBDA s : s \notin Range(list))

\* The condition under which subscribe / unsubscribe put a message on the wire.
canSend(st) ==
    /\ st.wsRef # NoSocket
    /\ st.sockets[st.wsRef].readyState = "OPEN"
    /\ st.isAuthenticated

subscribe(st, symbols) ==
    LET newSymbols == newSymbolsOf(st.subscribedSymbols, symbols) IN
    IF Len(symbols) = 0 THEN st
    ELSE IF Len(newSymbols) = 0 THEN st
    ELSE LET s1 == [st EXCEPT !.subscribedSymbols = addAll(@, newSymbols)]
         IN IF canSend(s1) THEN send(s1, s1.wsRef, "subscribe", newSymbols) ELSE s1

unsubscribe(st, symbols) ==
    LET subscribedToRemove == subscribedToRemoveOf(st.subscribedSymbols, symbols) IN
    IF Len(symbols) = 0 THEN st
    ELSE IF Len(subscribedToRemove) = 0 THEN st
    ELSE LET s1 == [st EXCEPT !.subscribedSymbols = deleteAll(@, subscribedToRemove)]
         IN IF canSend(s1) THEN send(s1, s1.wsRef, "unsubscribe", subscribedToRemove)
            ELSE s1

\* ------------------------------------------------------------- connect
\* Mutant of connectionExists: only the flag is consulted.
connectionExistsFlagOnly(st) == st.connectionInProgress

\* The duplicate-connection guard of connect().
connectionExists(st) ==
    \/ st.connectionInProgress
    \/ /\ st.wsRef # NoSocket
       /\ st.sockets[st.wsRef].readyState \in {"CONNECTING", "OPEN"}

\* Mutant of connectSkips: the endpoint is not looked at.
connectSkipsIgnoresUrl(st) == ~enabled \/ connectionExists(st)

\* connect() returns before touching anything.
connectSkips(st) == ~enabled \/ url = "" \/ connectionExists(st)

\* Mutant of connect: the catch clause leaves the guard set.
connectCatchKeepsGuard(st) ==
    IF connectSkips(st) THEN st
    ELSE LET s1 == [st EXCEPT !.connectionInProgress = TRUE]
             s2 == IF s1.wsRef # NoSocket THEN closeCall(s1, s1.wsRef, 1005) ELSE s1
         IN IF url = "bad"
            THEN [s2 EXCEPT !.error = "Failed to create WebSocket connection"]
            ELSE [s2 EXCEPT !.nws = @ + 1,
                            !.sockets[s2.nws + 1] =
                                [FreshSocket EXCEPT !.readyState = "CONNECTING"],
                            !.wsRef = s2.nws + 1]

connect(st) ==
    IF connectSkips(st) THEN st
    ELSE LET s1 == [st EXCEPT !.connectionInProgress = TRUE]
             s2 == IF s1.wsRef # NoSocket THEN closeCall(s1, s1.wsRef, 1005) ELSE s1
         IN IF url = "bad"
            THEN \* new WebSocket(url) throws
                 [s2 EXCEPT !.error = "Failed to create WebSocket connection",
                            !.connectionInProgress = FALSE]
            ELSE [s2 EXCEPT !.nws = @ + 1,
                            !.sockets[s2.nws + 1] =
                                [FreshSocket EXCEPT !.readyState = "CONNECTING"],
                            !.wsRef = s2.nws + 1]

\* connect() would create a transport: the model lets it only while fewer
\* than MaxTransports exist.
createsTransport(st) == ~connectSkips(st) /\ url # "bad"
withinBound(st) == createsTransport(st) => st.nws < MaxTransports

\* ------------------------------------------------------------- handlers
\* Mutant of resync: the resubscription is forgotten.
resyncForgotten(st, t) == st

\* The resubscription of onopen after a successful authentication.
resync(st, t) ==
    IF Len(st.subscribedSymbols) > 0
    THEN send(st, t, "subscribe", st.subscribedSymbols)
    ELSE st

\* The part of onopen after `await authenticate(ws)`.
afterAuth(st, t, authSuccess) ==
    IF authSuccess THEN resync(st, t) ELSE closeCall(st, t, 1005)

\* Mutant of authenticate: a missing credential is not noticed.
authenticateAlways(st, t) ==
    IF st.authenticationInProgress
    THEN [st EXCEPT !.sockets[t].hs = "fail"]
    ELSE [st EXCEPT !.authenticationInProgress = TRUE,
                    !.sockets[t].hs = "pending",
                    !.sockets[t].authTimer = TRUE,
                    !.sockets[t].listener = TRUE]

\* authenticate(ws) up to the point where it returns or suspends.
authenticate(st, t) ==
    IF apiKey = NoKey
    THEN [st EXCEPT !.isAuthenticated = TRUE, !.sockets[t].hs = "ok"]
    ELSE IF st.authenticationInProgress
    THEN [st EXCEPT !.sockets[t].hs = "fail"]
    ELSE [st EXCEPT !.authenticationInProgress = TRUE,
                    !.sockets[t].hs = "pending",
                    !.sockets[t].authTimer = TRUE,
                    !.sockets[t].listener = TRUE]

onopen(st, t) ==
    LET s1 == [st EXCEPT !.isConnected = TRUE, !.error = "null",
                         !.connectionInProgress = FALSE]
        s2 == authenticate(s1, t)
    IN IF s2.sockets[t].hs = "pending" THEN s2
       ELSE afterAuth(s2, t, s2.sockets[t].hs = "ok")

\* Mutant of shouldReconnect: only an abnormal closure is retried.
shouldReconnectAbnormalOnly(code) == enabled /\ code = 1006

\* Mutant of shouldReconnect: the test of the close code is inverted.
shouldReconnectInverted(code) == enabled /\ code = 1000

\* Whether onclose schedules a reconnect.
shouldReconnect(code) == enabled /\ code # 1000

\* Mutant of onclose: the registry is cleared with the session.
oncloseClearsRegistry(st, t, code) ==
    LET s1 == [st EXCEPT !.isConnected = FALSE, !.isAuthenticated = FALSE,
                         !.sessionToken = "null",
                         !.subscribedSymbols = <<>>,
                         !.authenticationInProgress = FALSE,
                         !.connectionInProgress = FALSE,
                         !.wsRef = NoSocket]
    IN IF shouldReconnect(code)
       THEN [s1 EXCEPT !.timers = @ \cup {t}, !.reconnectTimeoutRef = t]
       ELSE s1

\* Mutant of onclose: the session token survives the close.
oncloseKeepsSession(st, t, code) ==
    LET s1 == [st EXCEPT !.isConnected = FALSE, !.isAuthenticated = FALSE,
                         !.authenticationInProgress = FALSE,
                         !.connectionInProgress = FALSE,
                         !.wsRef = NoSocket]
    IN IF shouldReconnect(code)
       THEN [s1 EXCEPT !.timers = @ \cup {t}, !.reconnectTimeoutRef = t]
       ELSE s1

\* ws.onclose; the reconnect timer it sets is identified by the transport.
onclose(st, t, code) ==
    LET s1 == [st EXCEPT !.isConnected = FALSE, !.isAuthenticated = FALSE,
                         !.sessionToken = "null",
                         !.authenticationInProgress = FALSE,
                         !.connectionInProgress = FALSE,
                         !.wsRef = NoSocket]
    IN IF shouldReconnect(code)
       THEN [s1 EXCEPT !.timers = @ \cup {t}, !.reconnectTimeoutRef = t]
       ELSE s1

\* ws.onerror
onerror(st) ==
    [st EXCEPT !.error = "WebSocket connection error", !.connectionInProgress = FALSE]

\* The transport reaches CLOSED and its close event, preceded by an error event
\* when the closure is a failure, is dispatched.  Nothing is delivered to a
\* closed transport and the server streams nothing on it, so all that is kept
\* of it is what can still act: the authTimeout of a handshake that was
\* pending (onclose does not clear it), with its unresolved promise.
closed(st, t, code, failed) ==
    LET s1 == [st EXCEPT !.sockets[t] =
                   [FreshSocket EXCEPT !.readyState = "CLOSED",
                                       !.authTimer = st.sockets[t].authTimer,
                                       !.hs = IF st.sockets[t].authTimer
                                              THEN "pending" ELSE "none"]]
        s2 == IF failed THEN onerror(s1) ELSE s1
    IN onclose(s2, t, code)

\* Mutant of authTimeout: the in-progress guard is left set.
authTimeoutKeepsGuard(st, t) ==
    afterAuth([st EXCEPT !.error = "Authentication timeout",
                         !.sockets[t].authTimer = FALSE,
                         !.sockets[t].hs =
                             IF st.sockets[t].readyState = "CLOSED"
                             THEN "none" ELSE "fail"], t, FALSE)

\* The authTimeout callback of authenticate(ws), with the continuation of
\* onopen that its resolve(false) releases.
authTimeout(st, t) ==
    LET s1 == [st EXCEPT !.error = "Authentication timeout",
                         !.authenticationInProgress = FALSE,
                         !.sockets[t].authTimer = FALSE,
                         !.sockets[t].hs =
                             IF st.sockets[t].readyState = "CLOSED"
                             THEN "none" ELSE "fail"]
    IN afterAuth(s1, t, FALSE)

\* Mutant of onmessage: an error message also drops the session.
onmessageErrorResets(st, msg) ==
    IF msg.type = "error"
    THEN [st EXCEPT !.error = "server error", !.isAuthenticated = FALSE,
                    !.sessionToken = "null"]
    ELSE st

\* Mutant of onmessage: the authentication messages are not skipped, and an
\* auth_error is taken for an error message.
onmessageForwardsAuth(st, msg) ==
    IF msg.type \in {"error", "auth_error"}
    THEN [st EXCEPT !.error = "server error"]
    ELSE st

\* ws.onmessage, the general handler.
onmessage(st, msg) ==
    IF msg.type = "error" THEN [st EXCEPT !.error = "server error"] ELSE st

\* The rest of messageHandler's challenge branch, once `await sha256(...)` has
\* produced the signature of the oldest awaited challenge.
signed(st, t) ==
    LET data == Head(st.sockets[t].signing)
        signature == sha256(signedText(data.challenge, apiKey))
    IN sendAuth([st EXCEPT !.sockets[t].signing = Tail(@)], t,
                [type |-> "challenge_response",
                 challenge_id |-> data.challenge_id,
                 signature |-> signature,
                 api_key |-> apiKey])

\* `await sha256(...)` rejects (crypto.subtle is missing outside a secure
\* context): the catch clause of messageHandler, whose resolve(false) releases
\* the continuation of onopen only if the promise was still pending.
signFailed(st, t) ==
    LET s1 == [st EXCEPT !.sockets[t].signing = Tail(@),
                         !.sockets[t].authTimer = FALSE,
                         !.sockets[t].listener = FALSE,
                         !.error = "Authentication error",
                         !.authenticationInProgress = FALSE]
    IN IF st.sockets[t].hs = "pending"
       THEN afterAuth([s1 EXCEPT !.sockets[t].hs = "fail"], t, FALSE)
       ELSE s1

\* messageHandler of authenticate(ws), with the continuation of onopen when it
\* resolves the promise.  The challenge branch suspends at `await sha256(...)`.
messageHandler(st, t, msg) ==
    LET type == msg.type IN
    IF type = "auth_required"
    THEN sendAuth(st, t, [type |-> "request_challenge", api_key |-> apiKey])
    ELSE IF type = "challenge"
    THEN [st EXCEPT !.sockets[t].signing =
              Append(@, [challenge |-> msg.challenge,
                         challenge_id |-> msg.challenge_id])]
    ELSE IF type = "authenticated"
    THEN afterAuth([st EXCEPT !.sockets[t].authTimer = FALSE,
                              !.sockets[t].listener = FALSE,
                              !.isAuthenticated = TRUE,
                              !.sessionToken = "tok",
                              !.error = "null",
                              !.authenticationInProgress = FALSE,
                              !.sockets[t].hs = "ok"], t, TRUE)
    ELSE IF type = "auth_error"
    THEN afterAuth([st EXCEPT !.sockets[t].authTimer = FALSE,
                              !.sockets[t].listener = FALSE,
                              !.error = "Authentication failed",
                              !.isAuthenticated = FALSE,
                              !.authenticationInProgress = FALSE,
                              !.sockets[t].hs = "fail"], t, FALSE)
    ELSE IF type = "malformed"
    THEN \* JSON.parse throws: the catch clause
         afterAuth([st EXCEPT !.sockets[t].authTimer = FALSE,
                              !.sockets[t].listener = FALSE,
                              !.error = "Authentication error",
                              !.authenticationInProgress = FALSE,
                              !.sockets[t].hs = "fail"], t, FALSE)
    ELSE st

\* Mutant of priceUpdate: the previous map is not spread into the new one.
priceUpdateAlone(st, symbol, price) ==
    [st EXCEPT !.prices = [x \in {symbol} |-> price]]

\* setPrices(prev => ({...prev, [update.symbol]: update.price}))
priceUpdate(st, symbol, price) ==
    [st EXCEPT !.prices = [x \in DOMAIN st.prices \cup {symbol} |->
                              IF x = symbol THEN price ELSE st.prices[x]]]

\* Mutant of cacheEffect: a snapshot already stored keeps its timestamp.
cacheEffectOldTime(st, ok) ==
    IF DOMAIN st.prices # {} /\ ok /\ st.storage # UnreadableItem
    THEN [st EXCEPT !.storage =
              Snapshot(st.prices, IF st.storage.kind = "snapshot"
                                  THEN st.storage.timestamp ELSE now)]
    ELSE st

\* Mutant of cacheEffect: the session token is stored with the prices.
cacheEffectWithSession(st, ok) ==
    IF DOMAIN st.prices # {} /\ ok /\ st.storage # UnreadableItem
    THEN [st EXCEPT !.storage =
              [kind |-> "snapshot", data |-> st.prices, timestamp |-> now,
               session |-> st.sessionToken]]
    ELSE st

\* The effect on [prices]: a map that is not empty is written to localStorage
\* with the time of writing; ok = FALSE when setItem throws (the catch), as
\* it always does when the storage cannot be accessed.
cacheEffect(st, ok) ==
    IF DOMAIN st.prices # {} /\ ok /\ st.storage # UnreadableItem
    THEN [st EXCEPT !.storage = Snapshot(st.prices, now)]
    ELSE st

\* The cleanup of the mount effect.
cleanup(st) ==
    LET s1 == IF st.reconnectTimeoutRef # NoSocket
              THEN [st EXCEPT !.timers = @ \ {st.reconnectTimeoutRef}]
              ELSE st
    IN IF s1.wsRef # NoSocket THEN closeCall(s1, s1.wsRef, 1000) ELSE s1

\* The messages a server may send: the four authentication messages, an error
\* message, and data that is not JSON.
ChallengeMsgs == {[type |-> "challenge", challenge |-> c, challenge_id |-> i] :
                      c \in Challenges, i \in ChallengeIds}
PlainMsgs == {[type |-> x] : x \in {"auth_required", "authenticated",
                                    "auth_error", "error", "malformed"}}
Msgs == PlainMsgs
AuthMsgs == PlainMsgs \cup ChallengeMsgs

\* ------------------------------------------------------------- actions
\* The provider as constructed, but for its configuration and what the
\* browser holds for it (storage and clock).
InitProvider ==
    /\ phase = "init"
    /\ isConnected = FALSE
    /\ error = "null"
    /\ isAuthenticated = FALSE
    /\ sessionToken = "null"
    /\ wsRef = NoSocket
    /\ reconnectTimeoutRef = NoSocket
    /\ subscribedSymbols = <<>>
    /\ authenticationInProgress = FALSE
    /\ connectionInProgress = FALSE
    /\ sockets = [t \in Transports |-> FreshSocket]
    /\ nws = 0
    /\ timers = {}
    /\ prices = loadCache(storage, now)
    /\ out = NoMsg
    /\ lastOp = Op("init", NoSocket)

\* Any configuration, in a browser that holds no snapshot.
Init ==
    /\ enabled \in BOOLEAN
    /\ url \in {"", "bad", "ok"}
    /\ apiKey \in {NoKey, Credential}
    /\ storage = NoItem
    /\ now = 0
    /\ InitProvider

\* The effects of the first render, in the order of their declaration: the
\* effect on [prices], then the mount effect, connect().
Mount(ok) ==
    /\ phase = "init"
    /\ withinBound(Cur)
    /\ phase' = "mounted"
    /\ Commit(connect(cacheEffect(Cur, ok)), Op("mount", NoSocket))

\* The mount effect runs again (its dependency `connect` changed identity, or
\* a development-mode remount): cleanup, then connect().
EffectRerun ==
    /\ phase = "mounted"
    /\ withinBound(cleanup(Cur))
    /\ UNCHANGED phase
    /\ Commit(connect(cleanup(Cur)), Op("rerun", NoSocket))

\* The provider unmounts: cleanup only.
Unmount ==
    /\ phase = "mounted"
    /\ phase' = "unmounted"
    /\ Commit(cleanup(Cur), Op("unmount", NoSocket))

\* A consumer calls reconnect(), which is connect.
Reconnect ==
    /\ phase = "mounted"
    /\ withinBound(Cur)
    /\ UNCHANGED phase
    /\ Commit(connect(Cur), Op("connect", NoSocket))

\* A reconnect timer set by onclose fires: connect().
ReconnectTimer(id) ==
    /\ id \in timers
    /\ LET s1 == [Cur EXCEPT !.timers = @ \ {id}] IN
       /\ withinBound(s1)
       /\ Commit(connect(s1), Op("reconnectTimer", id))
    /\ UNCHANGED phase

Subscribe(symbols) ==
    /\ phase = "mounted"
    /\ UNCHANGED phase
    /\ Commit(subscribe(Cur, symbols), Op("subscribe", NoSocket))

Unsubscribe(symbols) ==
    /\ phase = "mounted"
    /\ UNCHANGED phase
    /\ Commit(unsubscribe(Cur, symbols), Op("unsubscribe", NoSocket))

\* The transport's connection is established: the open event.
Open(t) ==
    /\ sockets[t].readyState = "CONNECTING"
    /\ UNCHANGED phase
    /\ Commit(onopen([Cur EXCEPT !.sockets[t].readyState = "OPEN"], t),
              Op("open", t))

\* The connection attempt fails, or an established connection breaks: error
\* event and close event 1006.
TransportError(t) ==
    /\ sockets[t].readyState \in {"CONNECTING", "OPEN"}
    /\ UNCHANGED phase
    /\ Commit(closed(Cur, t, 1006, TRUE), Op("transportError", t))

\* The server closes an open transport with a code of its choosing.
ServerClose(t, code) ==
    /\ sockets[t].readyState = "OPEN"
    /\ UNCHANGED phase
    /\ Commit(closed(Cur, t, code, FALSE), Op("serverClose", t))

\* The close the client asked for completes: the close event.
CloseEvent(t) ==
    /\ sockets[t].readyState = "CLOSING"
    /\ UNCHANGED phase
    /\ Commit(closed(Cur, t, sockets[t].closeCode, sockets[t].closeCode = 1006),
              Op("closeEvent", t))

\* A message arrives on an open transport: ws.onmessage runs, then the
\* messageHandler of authenticate(ws) if it is registered.
Receive(t, msg) ==
    /\ sockets[t].readyState = "OPEN"
    /\ (msg.type = "challenge" /\ sockets[t].listener) =>
           Len(sockets[t].signing) < MaxSigning
    /\ UNCHANGED phase
    /\ LET s1 == onmessage(Cur, msg) IN
       Commit(IF sockets[t].listener THEN messageHandler(s1, t, msg) ELSE s1,
              Op(msg.type, t))

\* The digest of the oldest awaited challenge is ready: messageHandler resumes.
Signed(t) ==
    /\ sockets[t].signing # <<>>
    /\ UNCHANGED phase
    /\ Commit(signed(Cur, t), Op("signed", t))

\* The digest of the oldest awaited challenge fails: messageHandler's catch.
SignFailed(t) ==
    /\ sockets[t].signing # <<>>
    /\ UNCHANGED phase
    /\ Commit(signFailed(Cur, t), Op("signFailed", t))

\* A price_update arrives on an open transport: ws.onmessage sets the prices
\* state and the effect on [prices] follows the render (messageHandler, if it
\* is registered, has no branch for the type).  React drops the state update
\* of an unmounted provider, and with it the effect.
PriceUpdate(t, symbol, price, ok) ==
    /\ sockets[t].readyState = "OPEN"
    /\ UNCHANGED phase
    /\ Commit(IF phase = "mounted"
              THEN cacheEffect(priceUpdate(Cur, symbol, price), ok)
              ELSE Cur,
              [op |-> "price_update", ws |-> t,
               symbol |-> symbol, price |-> price])

\* Time passes (the first render and its effects are one task: the clock
\* moves only once the provider is mounted).
Tick ==
    /\ phase # "init"
    /\ now < MaxClock * HalfDay
    /\ now' = now + HalfDay
    /\ UNCHANGED <<cfgVars, phase, isConnected, error, isAuthenticated,
                   sessionToken, wsRef, reconnectTimeoutRef, subscribedSymbols,
                   authenticationInProgress, connectionInProgress, sockets,
                   nws, timers, prices, storage>>
    /\ out' = NoMsg
    /\ lastOp' = Op("tick", NoSocket)

\* The 10 second timer of authenticate(ws) fires.
AuthTimeout(t) ==
    /\ sockets[t].authTimer
    /\ UNCHANGED phase
    /\ Commit(authTimeout(Cur, t), Op("authTimeout", t))

ServerCloseCodes == {1000, 1001}

Next ==
    \/ \E ok \in BOOLEAN : Mount(ok)
    \/ EffectRerun
    \/ Unmount
    \/ Reconnect
    \/ \E id \in Transports : ReconnectTimer(id)
    \/ \E symbols \in InputLists : Subscribe(symbols)
    \/ \E symbols \in InputLists : Unsubscribe(symbols)
    \/ \E t \in Transports : Open(t)
    \/ \E t \in Transports : TransportError(t)
    \/ \E t \in Transports, code \in ServerCloseCodes : ServerClose(t, code)
    \/ \E t \in Transports : CloseEvent(t)
    \/ \E t \in Transports, msg \in Msgs : Receive(t, msg)
    \/ \E t \in Transports : AuthTimeout(t)

\* The connection, with every consumer operation and every transport event.
\* A server's challenge leaves the connection state alone (it only starts a
\* signature), so the challenges are left to SpecAuth.
Spec == Init /\ [][Next]_vars

\* The handshake in full, with a credential configured: every message of
\* AuthMsgs, the signatures awaited, and the connection events around them.
\* The registry is left empty: the handshake never reads it.
InitAuth == Init /\ enabled /\ url = "ok" /\ apiKey = Credential

NextAuth ==
    \/ \E ok \in BOOLEAN : Mount(ok)
    \/ EffectRerun
    \/ Unmount
    \/ Reconnect
    \/ \E id \in Transports : ReconnectTimer(id)
    \/ \E t \in Transports : Open(t)
    \/ \E t \in Transports : TransportError(t)
    \/ \E t \in Transports, code \in ServerCloseCodes : ServerClose(t, code)
    \/ \E t \in Transports : CloseEvent(t)
    \/ \E t \in Transports, msg \in AuthMsgs : Receive(t, msg)
    \/ \E t \in Transports : Signed(t)
    \/ \E t \in Transports : SignFailed(t)
    \/ \E t \in Transports : AuthTimeout(t)

SpecAuth == InitAuth /\ [][NextAuth]_vars

\* The price cache: any stored item and any time at construction, price
\* updates on every open transport, the clock, and the connection events of
\* a provider without credential.
InitPrices ==
    /\ enabled = TRUE
    /\ url = "ok"
    /\ apiKey = NoKey
    /\ storage \in StoredItems
    /\ now \in Times
    /\ InitProvider

NextPrices ==
    \/ \E ok \in BOOLEAN : Mount(ok)
    \/ Unmount
    \/ \E id \in Transports : ReconnectTimer(id)
    \/ \E symbols \in InputLists : Subscribe(symbols)
    \/ \E t \in Transports : Open(t)
    \/ \E t \in Transports : TransportError(t)
    \/ \E t \in Transports : CloseEvent(t)
    \/ \E t \in Transports, msg \in Msgs : Receive(t, msg)
    \/ \E t \in Transports, symbol \in Symbols, price \in PriceValues,
          ok \in BOOLEAN : PriceUpdate(t, symbol, price, ok)
    \/ Tick

SpecPrices == InitPrices /\ [][NextPrices]_vars

\* The connection with a credential or without, under the scheduling the
\* browser guarantees: a connection attempt ends (it opens or it fails), the
\* close event of a closing transport is dispatched, and an armed
\* authentication timeout fires.  Consumers and the server are not obliged
\* to do anything.  The registry is left empty: no guard depends on it.
ConnectingSettles(t) ==
    /\ sockets[t].readyState = "CONNECTING"
    /\ (Open(t) \/ TransportError(t))

Scheduling ==
    \A t \in Transports :
       /\ WF_vars(ConnectingSettles(t))
       /\ WF_vars(CloseEvent(t))
       /\ WF_vars(AuthTimeout(t))

\* The messages that settle a handshake.
LiveMsgs == {m \in PlainMsgs : m.type \in {"authenticated", "auth_error", "malformed"}}

NextLive ==
    \/ \E ok \in BOOLEAN : Mount(ok)
    \/ EffectRerun
    \/ Unmount
    \/ Reconnect
    \/ \E id \in Transports : ReconnectTimer(id)
    \/ \E t \in Transports : Open(t)
    \/ \E t \in Transports : TransportError(t)
    \/ \E t \in Transports, code \in ServerCloseCodes : ServerClose(t, code)
    \/ \E t \in Transports : CloseEvent(t)
    \/ \E t \in Transports, msg \in LiveMsgs : Receive(t, msg)
    \/ \E t \in Transports : AuthTimeout(t)

SpecLive == Init /\ [][NextLive]_vars /\ Scheduling

\* What is persisted, with a credential configured: any stored item at
\* construction, the handshake and its session token, price updates on every
\* open transport, and the closes and reconnects around them.
InitPersist ==
    /\ enabled = TRUE
    /\ url = "ok"
    /\ apiKey = Credential
    /\ storage \in StoredItems
    /\ now = HalfDay
    /\ InitProvider

NextPersist ==
    \/ \E ok \in BOOLEAN : Mount(ok)
    \/ Unmount
    \/ \E id \in Transports : ReconnectTimer(id)
    \/ \E t \in Transports : Open(t)
    \/ \E t \in Transports : TransportError(t)
    \/ \E t \in Transports : CloseEvent(t)
    \/ \E t \in Transports, msg \in Msgs : Receive(t, msg)
    \/ \E t \in Transports, symbol \in Symbols, price \in PriceValues,
          ok \in BOOLEAN : PriceUpdate(t, symbol, price, ok)
    \/ \E t \in Transports : AuthTimeout(t)

SpecPersist == InitPersist /\ [][NextPersist]_vars

\* ------------------------------------------------------------- useWebSocket
\* The legacy hook of lib/useWebSocket.ts, over the same state: it has no
\* handshake and no guards (isAuthenticated, sessionToken and the two
\* in-progress flags stay as constructed), subscribedSymbols stands for its
\* `symbols` option (and symbolsRef.current, which an effect keeps equal to
\* it), and out is the sequence of the messages a step sends.  React drops
\* the state updates of an unmounted component.
HookCur == [Cur EXCEPT !.out = <<>>]

hookSend(st, t, action, symbols) ==
    IF st.sockets[t].readyState = "OPEN"
    THEN [st EXCEPT !.out = Append(@, [ws |-> t, action |-> action,
                                       symbols |-> symbols]),
                    !.sockets[t].wire = wireAfter(@, action, symbols)]
    ELSE st

\* connect of the hook: no duplicate-connection guard.
hookConnect(st) ==
    IF ~enabled \/ url = "" THEN st
    ELSE LET s1 == IF st.wsRef # NoSocket THEN closeCall(st, st.wsRef, 1005) ELSE st
         IN IF url = "bad"
            THEN IF phase = "unmounted" THEN s1
                 ELSE [s1 EXCEPT !.error = "Failed to create WebSocket connection"]
            ELSE [s1 EXCEPT !.nws = @ + 1,
                            !.sockets[s1.nws + 1] =
                                [FreshSocket EXCEPT !.readyState = "CONNECTING"],
                            !.wsRef = s1.nws + 1]

hookCreatesTransport == enabled /\ url = "ok"

hookOnopen(st, t) ==
    LET s1 == IF phase = "unmounted" THEN st
              ELSE [st EXCEPT !.isConnected = TRUE, !.error = "null"]
    IN IF Len(s1.subscribedSymbols) > 0
       THEN hookSend(s1, t, "subscribe", s1.subscribedSymbols)
       ELSE s1

hookOnerror(st) ==
    IF phase = "unmounted" THEN st
    ELSE [st EXCEPT !.error = "WebSocket connection error"]

\* Mutant of hookShouldReconnect: the test of the close code is inverted.
hookShouldReconnectInverted(code) == enabled /\ code = 1000

hookShouldReconnect(code) == enabled /\ code # 1000

hookOnclose(st, t, code) ==
    LET s1 == [st EXCEPT !.isConnected = IF phase = "unmounted" THEN @ ELSE FALSE,
                         !.wsRef = NoSocket]
    IN IF hookShouldReconnect(code)
       THEN [s1 EXCEPT !.timers = @ \cup {t}, !.reconnectTimeoutRef = t]
       ELSE s1

hookClosed(st, t, code, failed) ==
    LET s1 == [st EXCEPT !.sockets[t] = [FreshSocket EXCEPT !.readyState = "CLOSED"]]
        s2 == IF failed THEN hookOnerror(s1) ELSE s1
    IN hookOnclose(s2, t, code)

\* The effect on [symbols, isConnected], which follows the render of a step
\* that changed either.
subscriptionEffect(before, st) ==
    IF /\ (st.isConnected # before.isConnected
              \/ st.subscribedSymbols # before.subscribedSymbols)
       /\ st.isConnected
       /\ st.wsRef # NoSocket
       /\ st.sockets[st.wsRef].readyState = "OPEN"
       /\ Len(st.subscribedSymbols) > 0
    THEN hookSend(st, st.wsRef, "subscribe", st.subscribedSymbols)
    ELSE st

InitHook ==
    /\ enabled = TRUE
    /\ url = "ok"
    /\ apiKey = NoKey
    /\ storage = NoItem
    /\ now = 0
    /\ phase = "init"
    /\ isConnected = FALSE
    /\ error = "null"
    /\ isAuthenticated = FALSE
    /\ sessionToken = "null"
    /\ wsRef = NoSocket
    /\ reconnectTimeoutRef = NoSocket
    /\ subscribedSymbols \in InputLists
    /\ authenticationInProgress = FALSE
    /\ connectionInProgress = FALSE
    /\ sockets = [t \in Transports |-> FreshSocket]
    /\ nws = 0
    /\ timers = {}
    /\ prices = EmptyMap
    /\ out = <<>>
    /\ lastOp = Op("init", NoSocket)

HookMount ==
    /\ phase = "init"
    /\ phase' = "mounted"
    /\ Commit(hookConnect(HookCur), Op("mount", NoSocket))

\* `connect` changed identity (an inline onPriceUpdate does that on every
\* render): cleanup, then connect().
HookRerun ==
    /\ phase = "mounted"
    /\ hookCreatesTransport => nws < MaxTransports
    /\ UNCHANGED phase
    /\ Commit(hookConnect(cleanup(HookCur)), Op("rerun", NoSocket))

HookUnmount ==
    /\ phase = "mounted"
    /\ phase' = "unmounted"
    /\ Commit(cleanup(HookCur), Op("unmount", NoSocket))

HookReconnect ==
    /\ phase = "mounted"
    /\ hookCreatesTransport => nws < MaxTransports
    /\ UNCHANGED phase
    /\ Commit(hookConnect(HookCur), Op("connect", NoSocket))

HookTimer(id) ==
    /\ id \in timers
    /\ hookCreatesTransport => nws < MaxTransports
    /\ UNCHANGED phase
    /\ Commit(hookConnect([HookCur EXCEPT !.timers = @ \ {id}]),
              Op("reconnectTimer", id))

\* The component passes another symbol list.
HookSetSymbols(symbols) ==
    /\ phase = "mounted"
    /\ symbols # subscribedSymbols
    /\ UNCHANGED phase
    /\ Commit(subscriptionEffect(HookCur, [HookCur EXCEPT !.subscribedSymbols = symbols]),
              Op("setSymbols", NoSocket))

HookOpen(t) ==
    /\ sockets[t].readyState = "CONNECTING"
    /\ UNCHANGED phase
    /\ Commit(subscriptionEffect(HookCur,
                  hookOnopen([HookCur EXCEPT !.sockets[t].readyState = "OPEN"], t)),
              Op("open", t))

HookTransportError(t) ==
    /\ sockets[t].readyState \in {"CONNECTING", "OPEN"}
    /\ UNCHANGED phase
    /\ Commit(subscriptionEffect(HookCur, hookClosed(HookCur, t, 1006, TRUE)),
              Op("transportError", t))

HookServerClose(t, code) ==
    /\ sockets[t].readyState = "OPEN"
    /\ UNCHANGED phase
    /\ Commit(subscriptionEffect(HookCur, hookClosed(HookCur, t, code, FALSE)),
              [op |-> "serverClose", ws |-> t, code |-> code])

HookCloseEvent(t) ==
    /\ sockets[t].readyState = "CLOSING"
    /\ UNCHANGED phase
    /\ Commit(subscriptionEffect(HookCur,
                  hookClosed(HookCur, t, sockets[t].closeCode,
                             sockets[t].closeCode = 1006)),
              [op |-> "closeEvent", ws |-> t, code |-> sockets[t].closeCode])

NextHook ==
    \/ HookMount
    \/ HookRerun
    \/ HookUnmount
    \/ HookReconnect
    \/ \E id \in Transports : HookTimer(id)
    \/ \E symbols \in InputLists : HookSetSymbols(symbols)
    \/ \E t \in Transports : HookOpen(t)
    \/ \E t \in Transports : HookTransportError(t)
    \/ \E t \in Transports, code \in ServerCloseCodes : HookServerClose(t, code)
    \/ \E t \in Transports : HookCloseEvent(t)

SpecHook == InitHook /\ [][NextHook]_vars

TypeOK ==
    /\ wsRef \in 0..MaxTransports
    /\ nws \in 0..MaxTransports
    /\ timers \subseteq Transports
    /\ \A t \in Transports : sockets[t].readyState = "NONE" <=> t > nws

\* ------------------------------------------------------------- claims
\* The program's own state apart from its timers (the configuration and the
\* two observation variables out and lastOp are not part of it).
connVars == <<phase, isConnected, error, isAuthenticated, sessionToken, wsRef,
              reconnectTimeoutRef, subscribedSymbols, authenticationInProgress,
              connectionInProgress, sockets, nws>>

\* The current transport is CONNECTING or OPEN, or the guard flag is set.
GuardIsSet ==
    \/ connectionInProgress
    \/ /\ wsRef # NoSocket
       /\ sockets[wsRef].readyState \in {"CONNECTING", "OPEN"}

\* subscribe / unsubscribe are in a position to send: the current transport is
\* OPEN and the client holds itself authenticated.
ClientCanSend ==
    /\ wsRef # NoSocket
    /\ sockets[wsRef].readyState = "OPEN"
    /\ isAuthenticated

\* C1: connect() invoked (by a consumer or by the reconnect timer) while the
\* connectionInProgress guard is set or the current transport is CONNECTING or
\* OPEN opens no transport and changes no state; and the second of two
\* connect() calls in immediate succession never opens a transport.
C1_NoDuplicateConnection ==
    [][ /\ (lastOp'.op \in {"connect", "reconnectTimer"} /\ GuardIsSet) =>
              /\ UNCHANGED connVars
              /\ lastOp'.op = "connect" => UNCHANGED timers
        /\ (lastOp.op \in {"mount", "rerun", "connect", "reconnectTimer"}
              /\ lastOp'.op = "connect") => nws' = nws ]_vars

\* C1 witness: a consumer's connect() ran while the only transport ever
\* created was still CONNECTING, and no second transport exists.
C1_Witness ==
    /\ lastOp.op = "connect"
    /\ nws = 1
    /\ wsRef = 1
    /\ sockets[1].readyState = "CONNECTING"
    /\ connectionInProgress

\* C2: in every state in which a consumer can call it, subscribe(S) leaves
\* every symbol of S in the registry, the message the call sends (if any)
\* lists exactly the symbols of S that were new, and a second subscribe(S)
\* issued right after sends nothing and changes nothing.
C2_SubscribeIdempotent ==
    phase = "mounted" =>
       \A S \in InputLists :
          LET r == subscribe(Cur, S)
              after == [r EXCEPT !.out = NoMsg]
          IN /\ Range(S) \subseteq Range(r.subscribedSymbols)
             /\ r.out # NoMsg =>
                   /\ r.out.action = "subscribe"
                   /\ Range(r.out.symbols) = Range(S) \ Range(subscribedSymbols)
             /\ subscribe(after, S) = after

\* C2 witness: subscribe(<<A, B>>) on an authenticated client has just sent
\* both symbols; the state in which the repeated call is a no-op.
C2_Witness ==
    /\ lastOp.op = "subscribe"
    /\ out.action = "subscribe"
    /\ out.symbols = <<"A", "B">>
    /\ ClientCanSend

\* C3: the client never sends a subscribe message for a symbol the transport
\* it is sent on has already been told to stream, and never sends an
\* unsubscribe message for a symbol that transport is not subscribed to.
C3_NoDuplicateTraffic ==
    [][ /\ out'.action = "subscribe" =>
              Range(out'.symbols) \cap sockets[out'.ws].wire = {}
        /\ out'.action = "unsubscribe" =>
              Range(out'.symbols) \subseteq sockets[out'.ws].wire ]_vars

\* C4: the step in which the handshake of a transport succeeds sends, on that
\* transport, one subscribe message listing exactly the registry (in the
\* registry's order), and no message when the registry is empty.
C4_ResyncEqualsRegistry ==
    [][ \A t \in Transports :
          (sockets[t].hs # "ok" /\ sockets'[t].hs = "ok") =>
             IF subscribedSymbols' = <<>>
             THEN out' = NoMsg
             ELSE out' = [ws |-> t, action |-> "subscribe",
                          symbols |-> subscribedSymbols'] ]_vars

\* C4 witness: a re-authentication (on the second transport or later) has just
\* resent a registry of two symbols.
C4_Witness ==
    /\ lastOp.op = "authenticated"
    /\ lastOp.ws >= 2
    /\ out.action = "subscribe"
    /\ out.ws = lastOp.ws
    /\ Len(out.symbols) = 2

\* C5: whenever the current transport is open and its handshake has succeeded,
\* the symbols the server has been told to stream on it are exactly the
\* registry.
C5_WireMatchesRegistry ==
    (wsRef # NoSocket /\ sockets[wsRef].readyState = "OPEN"
        /\ sockets[wsRef].hs = "ok")
    => sockets[wsRef].wire = Range(subscribedSymbols)

\* C6: a subscribe or unsubscribe message is only ever sent on a transport
\* whose handshake has succeeded.
C6_SubscribeOnlyAfterAuth ==
    out.action \in {"subscribe", "unsubscribe"} => sockets[out.ws].hs = "ok"

\* C7: in every state in which a consumer can call it, unsubscribe(S)
\* removes from the registry exactly the symbols of S that were present and
\* keeps the others in place; when the client is authenticated on an open
\* current transport it sends one unsubscribe message listing exactly the
\* removed symbols; when no symbol of S is present it sends nothing and
\* changes nothing.
C7_UnsubscribeExact ==
    phase = "mounted" =>
       \A S \in InputLists :
          LET r == unsubscribe(Cur, S)
              removed == Range(S) \cap Range(subscribedSymbols)
          IN /\ r.subscribedSymbols =
                   SelectSeq(subscribedSymbols, LAMBDA x : x \notin Range(S))
             /\ IF removed = {} THEN r = Cur
                ELSE IF ClientCanSend
                THEN /\ r.out.ws = wsRef
                     /\ r.out.action = "unsubscribe"
                     /\ Range(r.out.symbols) = removed
                ELSE r.out = NoMsg

\* C7 witness: with A and B subscribed, an unsubscribe has just removed A
\* alone and sent it.
C7_Witness ==
    /\ lastOp.op = "unsubscribe"
    /\ out.action = "unsubscribe"
    /\ out.symbols = <<"A">>
    /\ subscribedSymbols = <<"B">>

\* C8: a pending handshake always has its timeout armed, and when the timeout
\* of a handshake pending on an open transport fires, the handshake has
\* failed, the authentication-in-progress guard is clear, the error is the
\* authentication timeout and the transport is closing.
C8_AuthTimeoutBound ==
    [][ /\ \A t \in Transports : sockets'[t].hs = "pending" => sockets'[t].authTimer
        /\ \A t \in Transports :
             (lastOp'.op = "authTimeout" /\ lastOp'.ws = t
                 /\ sockets[t].readyState = "OPEN" /\ sockets[t].hs = "pending") =>
                /\ sockets'[t].hs = "fail"
                /\ ~sockets'[t].authTimer
                /\ ~authenticationInProgress'
                /\ error' = "Authentication timeout"
                /\ sockets'[t].readyState = "CLOSING" ]_vars

\* C8 witness: the timeout has just fired on a transport that is now closing.
C8_Witness ==
    /\ lastOp.op = "authTimeout"
    /\ sockets[lastOp.ws].readyState = "CLOSING"
    /\ sockets[lastOp.ws].hs = "fail"
    /\ error = "Authentication timeout"
    /\ ~authenticationInProgress

C10_SingleHandshake ==
    Cardinality({t \in Transports :
        sockets[t].readyState = "OPEN" /\ sockets[t].hs = "pending"}) <= 1

\* C11: with no credential configured the client never sends an authenticate
\* message, and the step in which a transport opens leaves the client
\* authenticated, the transport's handshake settled, and the registry (when
\* not empty) sent on that transport as one subscribe message.
C11_NoCredential ==
    [][ apiKey = NoKey =>
          /\ out'.action # "authenticate"
          /\ \A t \in Transports :
                (lastOp'.op = "open" /\ lastOp'.ws = t) =>
                   /\ isAuthenticated'
                   /\ sockets'[t].hs = "ok"
                   /\ ~sockets'[t].listener
                   /\ out' = IF subscribedSymbols = <<>> THEN NoMsg
                             ELSE [ws |-> t, action |-> "subscribe",
                                   symbols |-> subscribedSymbols] ]_vars

\* C11 witness: without a credential, a transport has just opened and the
\* registry of two symbols was sent at once.
C11_Witness ==
    /\ apiKey = NoKey
    /\ lastOp.op = "open"
    /\ isAuthenticated
    /\ out.action = "subscribe"
    /\ out.ws = lastOp.ws
    /\ Len(out.symbols) = 2

\* base64(sha256(c ":" credential)) for the two challenges, as computed
\* outside the client.
ExpectedSignature(c) ==
    IF c = <<"a", "b", "c">>
    THEN <<"+", "I", "f", "4", "B", "L", "/", "G", "N", "N", "N", "E", "f", "4",
           "r", "f", "K", "v", "5", "q", "P", "o", "g", "3", "h", "9", "T", "Y",
           "k", "0", "0", "o", "x", "u", "c", "v", "d", "H", "d", "v", "7", "X",
           "Q", "=">>
    ELSE <<"Q", "E", "d", "b", "C", "t", "0", "9", "d", "m", "B", "b", "X", "Q",
           "a", "6", "K", "c", "m", "D", "h", "E", "s", "e", "m", "x", "e", "f",
           "g", "7", "W", "u", "N", "C", "N", "z", "5", "P", "r", "v", "P", "t",
           "s", "=">>

\* The challenge_response for an awaited challenge, on transport t.
ResponseTo(t, data) ==
    [ws |-> t, action |-> "authenticate",
     auth_data |-> [type |-> "challenge_response",
                    challenge_id |-> data.challenge_id,
                    signature |-> ExpectedSignature(data.challenge),
                    api_key |-> Credential]]

\* C12 as claimed: every challenge received during the handshake is answered:
\* an awaited challenge leaves the transport's list only in a step that sends
\* its challenge_response.
C12_EveryChallengeAnswered ==
    [][ \A t \in Transports :
          sockets[t].signing # <<>> =>
             \/ sockets'[t].signing = sockets[t].signing
             \/ out' = ResponseTo(t, Head(sockets[t].signing)) ]_vars

\* C12 as amended: a challenge {c, i} received during the handshake is
\* recorded and nothing is sent until its signature is ready; the step in
\* which the signature is ready, on a transport still open, sends exactly the
\* challenge_response with challenge_id i, the credential and
\* base64(sha256(c ":" credential)); no challenge_response is sent in any
\* other step; and an auth_required received during the handshake is
\* answered in the same step by one request_challenge carrying the credential.
C12_ChallengeResponse ==
    [][ \A t \in Transports :
          /\ (lastOp' = Op("auth_required", t) /\ sockets[t].listener) =>
                out' = [ws |-> t, action |-> "authenticate",
                        auth_data |-> [type |-> "request_challenge",
                                       api_key |-> Credential]]
          /\ (lastOp' = Op("challenge", t) /\ sockets[t].listener) =>
                /\ out' = NoMsg
                /\ \E m \in ChallengeMsgs :
                      /\ Receive(t, m)
                      /\ sockets'[t].signing =
                            Append(sockets[t].signing,
                                   [challenge |-> m.challenge,
                                    challenge_id |-> m.challenge_id])
          /\ lastOp' = Op("signed", t) =>
                /\ out' = ResponseTo(t, Head(sockets[t].signing))
                /\ sockets'[t].signing = Tail(sockets[t].signing)
          /\ (out'.action = "authenticate" /\ out'.ws = t
                 /\ out'.auth_data.type = "challenge_response") =>
                lastOp' = Op("signed", t) ]_vars

\* C12 witness: the response to challenge "xy" with challenge_id "2" has just
\* been sent, carrying its base64 signature.
C12_Witness ==
    /\ lastOp.op = "signed"
    /\ out = ResponseTo(lastOp.ws, [challenge |-> <<"x", "y">>, challenge_id |-> "2"])

\* C13: when the provider's teardown has closed the current transport with
\* close(1000), the close event of that transport schedules no reconnect.
C13_DisconnectSuppressesReconnect ==
    [][ \A t \in Transports :
          (lastOp.op = "unmount" /\ wsRef = t
              /\ lastOp'.op = "closeEvent" /\ lastOp'.ws = t) =>
             /\ t \notin timers'
             /\ timers' = timers ]_vars

\* C14: once the provider's teardown has run, no reconnect timer is pending,
\* no transport is connecting or open, and no transport is created any more.
C14_DeterministicTeardown ==
    [][ phase' = "unmounted" =>
          /\ timers' = {}
          /\ \A t \in Transports :
                sockets'[t].readyState \notin {"CONNECTING", "OPEN"}
          /\ phase = "unmounted" => nws' = nws ]_vars

\* C15 as claimed: every closure initiated by the server, whatever its close
\* code, schedules a reconnect.
C15_ReconnectOnEveryClosure ==
    [][ \A t \in Transports :
          lastOp' = Op("serverClose", t) =>
             (t \in timers' /\ reconnectTimeoutRef' = t) ]_vars

\* C15 as amended: a closure schedules a reconnect exactly when its close
\* event carries a code other than 1000, whoever initiated it: a failure
\* (1006) always, a close the client asked for or the server initiated
\* according to its code.
C15_ReconnectOnAbnormalClose ==
    [][ \A t \in Transports :
          LET scheduled == t \in timers' /\ reconnectTimeoutRef' = t
              untouched == timers' = timers /\ reconnectTimeoutRef' = reconnectTimeoutRef
          IN /\ lastOp' = Op("transportError", t) => scheduled
             /\ lastOp' = Op("closeEvent", t) =>
                   IF sockets[t].closeCode # 1000 THEN scheduled ELSE untouched
             /\ lastOp' = Op("serverClose", t) =>
                   \A code \in ServerCloseCodes :
                      ServerClose(t, code) =>
                         IF code # 1000 THEN scheduled ELSE untouched ]_vars

\* C15 witness: the server has just closed the transport with a code other
\* than 1000 and the reconnect timer of that transport is pending.
C15_Witness ==
    /\ lastOp.op = "serverClose"
    /\ lastOp.ws \in timers
    /\ reconnectTimeoutRef = lastOp.ws
    /\ wsRef = NoSocket
    /\ ~isConnected

\* C16: the client itself invokes connect() again only from a reconnect
\* timer, so being retried means: on a mounted, enabled provider with an
\* endpoint, the step in which a transport fails, or in which connect() fails
\* to create the transport, leaves a reconnect timer pending.
C16_FailuresRetried ==
    [][ (enabled /\ url # "" /\ phase' = "mounted") =>
          /\ lastOp'.op = "transportError" => timers' # {}
          /\ (lastOp'.op \in {"mount", "rerun", "connect", "reconnectTimer"}
                 /\ error # "Failed to create WebSocket connection"
                 /\ error' = "Failed to create WebSocket connection") =>
                timers' # {} ]_vars

C18_CacheExpiry ==
    (phase = "init" /\ storage.kind = "snapshot") =>
       /\ now - storage.timestamp > CACHE_EXPIRY_MS => prices = EmptyMap
       /\ now - storage.timestamp < CACHE_EXPIRY_MS => prices = storage.data

\* C18 witness: the provider was constructed 36 hours after a snapshot of two
\* prices was saved, and its price map is empty.
C18_Witness ==
    /\ phase = "init"
    /\ storage.kind = "snapshot"
    /\ DOMAIN storage.data = Symbols
    /\ now - storage.timestamp = 3 * HalfDay
    /\ prices = EmptyMap

C20_LastValueWins ==
    [][ /\ lastOp'.op # "price_update" => prices' = prices
        /\ (lastOp'.op = "price_update" /\ phase = "mounted") =>
              /\ DOMAIN prices' = DOMAIN prices \cup {lastOp'.symbol}
              /\ prices'[lastOp'.symbol] = lastOp'.price
              /\ \A x \in DOMAIN prices \ {lastOp'.symbol} :
                    prices'[x] = prices[x] ]_vars

\* C20 witness: the price of B was loaded from the snapshot (which is still
\* the stored item), a price_update for A has just been processed, and the
\* map holds both.
C20_Witness ==
    /\ lastOp.op = "price_update"
    /\ phase = "mounted"
    /\ storage.kind = "snapshot"
    /\ DOMAIN storage.data = {"B"}
    /\ DOMAIN prices = Symbols
    /\ prices["B"] = storage.data["B"]

\* C21: a message that cannot be parsed, received on an open transport in any
\* connection state, leaves the transport open, the state of its handshake,
\* the authentication state, the session, the registry and the price map as
\* they were, and sends nothing.
C21_MalformedIgnored ==
    [][ \A t \in Transports :
          lastOp' = Op("malformed", t) =>
             /\ sockets'[t].readyState = "OPEN"
             /\ sockets'[t].hs = sockets[t].hs
             /\ isAuthenticated' = isAuthenticated
             /\ sessionToken' = sessionToken
             /\ subscribedSymbols' = subscribedSymbols
             /\ prices' = prices
             /\ out' = NoMsg ]_vars

\* C22: an error message from the server, received on an open transport,
\* changes nothing but the status error: the transport stays open with its
\* handshake as it was, no reconnect timer is set, nothing is sent, and the
\* authentication state, the session, the guards, the registry and the price
\* map are unchanged; on a mounted provider the error is the message.
C22_ServerErrorOnlySetsError ==
    [][ \A t \in Transports :
          lastOp' = Op("error", t) =>
             /\ sockets' = sockets
             /\ sockets'[t].readyState = "OPEN"
             /\ timers' = timers
             /\ reconnectTimeoutRef' = reconnectTimeoutRef
             /\ wsRef' = wsRef
             /\ isConnected' = isConnected
             /\ isAuthenticated' = isAuthenticated
             /\ sessionToken' = sessionToken
             /\ authenticationInProgress' = authenticationInProgress
             /\ connectionInProgress' = connectionInProgress
             /\ subscribedSymbols' = subscribedSymbols
             /\ prices' = prices
             /\ out' = NoMsg
             /\ phase = "mounted" => error' = "server error" ]_vars

\* C22 witness: an error message has just been received by an authenticated
\* client holding a session, while its registry is not empty: the error is
\* set and the session is still there.
C22_Witness ==
    /\ lastOp.op = "error"
    /\ error = "server error"
    /\ isAuthenticated
    /\ sessionToken = "tok"
    /\ wsRef = lastOp.ws
    /\ sockets[wsRef].hs = "ok"
    /\ subscribedSymbols # <<>>

\* The four message types of the authentication handshake.
AuthTypes == {"auth_required", "challenge", "authenticated", "auth_error"}

\* C23: an authentication message received on a transport on which no
\* handshake is listening (none was needed, or it has succeeded or failed)
\* changes no client state and sends nothing; a handshake that has succeeded
\* or failed on an open transport is no longer listening; and a message
\* received by a listening handshake sends at most the one reply to it, on
\* that transport.
C23_AuthMessagesOnlyInHandshake ==
    [][ \A t \in Transports :
          (lastOp'.op \in AuthTypes /\ lastOp'.ws = t) =>
             /\ sockets[t].hs \in {"ok", "fail"} => ~sockets[t].listener
             /\ ~sockets[t].listener =>
                   /\ UNCHANGED <<connVars, timers, prices, storage>>
                   /\ out' = NoMsg
             /\ sockets[t].listener =>
                   /\ sockets[t].hs = "pending"
                   /\ out' # NoMsg =>
                         /\ lastOp'.op = "auth_required"
                         /\ out'.ws = t
                         /\ out'.action = "authenticate"
                         /\ out'.auth_data.type = "request_challenge" ]_vars

\* C23 witness: a second `authenticated` has just arrived on the transport
\* whose handshake had already succeeded and whose session is held.
C23_Witness ==
    /\ lastOp.op = "authenticated"
    /\ apiKey = Credential
    /\ sockets[lastOp.ws].readyState = "OPEN"
    /\ sockets[lastOp.ws].hs = "ok"
    /\ ~sockets[lastOp.ws].listener
    /\ sessionToken = "tok"
    /\ out = NoMsg

\* The steps in which a close event is processed.
CloseOps == {"closeEvent", "transportError", "serverClose"}

\* C24: the step that processes the close event of a transport leaves the
\* transport closed and the client disconnected, not authenticated, without
\* session token and without current transport, and both in-progress guards
\* clear.
C24_CloseResetsSession ==
    [][ \A t \in Transports :
          (lastOp'.op \in CloseOps /\ lastOp'.ws = t) =>
             /\ sockets'[t].readyState = "CLOSED"
             /\ ~isConnected'
             /\ ~isAuthenticated'
             /\ sessionToken' = "null"
             /\ wsRef' = NoSocket
             /\ ~authenticationInProgress'
             /\ ~connectionInProgress' ]_vars

\* C24 witness: the server has closed normally the transport of a client
\* that was authenticated with a credential (no handshake timeout is left
\* armed and no error was set): no timer, and the session is gone.
C24_Witness ==
    /\ lastOp.op = "serverClose"
    /\ apiKey = Credential
    /\ nws = 1
    /\ ~sockets[1].authTimer
    /\ error = "null"
    /\ timers = {}
    /\ subscribedSymbols # <<>>
    /\ sessionToken = "null"
    /\ ~isAuthenticated
    /\ ~isConnected

\* The steps in which connect() runs.
ConnectOps == {"mount", "rerun", "connect", "reconnectTimer"}

\* C25: every error path ends with its guard clear: a connect() that fails
\* to create the transport, a transport error and a close leave
\* connection-in-progress clear; an auth_error or an unparsable message
\* received by the handshake (the exception path of messageHandler), the
\* authentication timeout and a close leave authentication-in-progress clear.  And no guard stays
\* set forever: whenever connection-in-progress is set it is later clear, and
\* so is authentication-in-progress.
C25_GuardsNeverStale ==
    /\ [][ /\ (lastOp'.op \in ConnectOps
                 /\ error' = "Failed to create WebSocket connection"
                 /\ nws' = nws) => ~connectionInProgress'
           /\ lastOp'.op \in CloseOps =>
                 (~connectionInProgress' /\ ~authenticationInProgress')
           /\ \A t \in Transports :
                 (lastOp'.op \in {"auth_error", "malformed"} /\ lastOp'.ws = t
                     /\ sockets[t].listener) => ~authenticationInProgress'
           /\ lastOp'.op = "authTimeout" => ~authenticationInProgress' ]_vars
    /\ connectionInProgress ~> ~connectionInProgress
    /\ authenticationInProgress ~> ~authenticationInProgress

\* C25 witness: the timeout of a handshake has fired after its transport had
\* closed and while the handshake of a later transport is pending; the
\* authentication guard is clear.
C25_Witness ==
    /\ lastOp.op = "authTimeout"
    /\ sockets[lastOp.ws].readyState = "CLOSED"
    /\ \E t \in Transports :
          /\ t > lastOp.ws
          /\ sockets[t].readyState = "OPEN"
          /\ sockets[t].hs = "pending"
    /\ ~authenticationInProgress
    /\ ~connectionInProgress

\* The lifecycle state the client holds itself in, read off its status: it is
\* Authenticated when isAuthenticated, Authenticating when connected but not
\* authenticated, Connecting when not connected while a connection is being
\* established (the guard of connect() is set), and Disconnected otherwise.
Lifecycle ==
    IF isAuthenticated THEN "Authenticated"
    ELSE IF isConnected THEN "Authenticating"
    ELSE IF GuardIsSet THEN "Connecting"
    ELSE "Disconnected"

\* The transitions of the lifecycle, with the operations that may take them.
\* Without credential the open handler goes through Authenticating and on to
\* Authenticated in one step (authenticate returns true at once).
LifecycleMoves ==
    {<<"Disconnected", op, "Connecting">> : op \in ConnectOps}
    \cup {<<"Connecting", "open", "Authenticating">>}
    \cup {<<"Authenticating", "authenticated", "Authenticated">>}
    \cup (IF apiKey = NoKey THEN {<<"Connecting", "open", "Authenticated">>} ELSE {})
    \cup {<<from, op, "Disconnected">> :
             from \in {"Connecting", "Authenticating", "Authenticated"},
             op \in CloseOps}

\* C26: the lifecycle state changes only by one of the transitions
\* Disconnected to Connecting (connect), Connecting to Authenticating (open),
\* Authenticating to Authenticated (handshake success) and Connecting,
\* Authenticating or Authenticated to Disconnected (close or error); and the
\* step in which the client becomes authenticated leaves a transport open
\* with the handshake succeeded on it.
C26_LifecycleTransitions ==
    [][ /\ Lifecycle' # Lifecycle =>
              <<Lifecycle, lastOp'.op, Lifecycle'>> \in LifecycleMoves
        /\ (~isAuthenticated /\ isAuthenticated') =>
              \E t \in Transports :
                 /\ sockets'[t].readyState = "OPEN"
                 /\ sockets'[t].hs = "ok" ]_vars

\* C27: while the client is disabled or its endpoint is empty, connect() in
\* the state at hand changes nothing, and through every mount, effect
\* re-run, reconnect() and unmount no transport exists, no guard is set, no
\* timer is pending and the status is as constructed.
C27_ConnectNoOpWhenDisabled ==
    (~enabled \/ url = "") =>
       /\ connect(Cur) = Cur
       /\ nws = 0
       /\ wsRef = NoSocket
       /\ ~connectionInProgress
       /\ ~authenticationInProgress
       /\ timers = {}
       /\ reconnectTimeoutRef = NoSocket
       /\ ~isConnected
       /\ ~isAuthenticated
       /\ error = "null"

\* C27 witness: a consumer of an enabled provider whose endpoint is empty has
\* just called reconnect(), with symbols registered: nothing exists.
C27_Witness ==
    /\ enabled
    /\ url = ""
    /\ phase = "mounted"
    /\ lastOp.op = "connect"
    /\ subscribedSymbols # <<>>
    /\ nws = 0
    /\ ~connectionInProgress

\* The state with the stored item put aside.
Blind(st) == [st EXCEPT !.storage = NoItem]

\* C28: a provider constructed over a missing, unparsable or unreadable
\* stored item starts with the empty price map; and whatever the stored item
\* is, every handler (mount, open, close, message, price update, subscribe)
\* does to the rest of the state exactly what it does when nothing is stored.
C28_CacheLoadFailureNonFatal ==
    /\ (phase = "init" /\ storage \in FailedItems) => prices = EmptyMap
    /\ \A ok \in BOOLEAN :
          /\ Blind(connect(cacheEffect(Cur, ok)))
                = Blind(connect(cacheEffect(Blind(Cur), ok)))
          /\ \A symbol \in Symbols, price \in PriceValues :
                Blind(cacheEffect(priceUpdate(Cur, symbol, price), ok))
                   = Blind(cacheEffect(priceUpdate(Blind(Cur), symbol, price), ok))
    /\ \A t \in Transports :
          sockets[t].readyState \in {"CONNECTING", "OPEN"} =>
             /\ Blind(onopen(Cur, t)) = Blind(onopen(Blind(Cur), t))
             /\ Blind(closed(Cur, t, 1006, TRUE))
                   = Blind(closed(Blind(Cur), t, 1006, TRUE))
             /\ \A msg \in Msgs :
                   Blind(onmessage(Cur, msg)) = Blind(onmessage(Blind(Cur), msg))
    /\ \A S \in InputLists :
          Blind(subscribe(Cur, S)) = Blind(subscribe(Blind(Cur), S))

\* C28 witness: over a storage that cannot be accessed, the client has
\* connected, is authenticated and has just processed a price update that
\* completed a map of both symbols.
C28_Witness ==
    /\ storage = UnreadableItem
    /\ phase = "mounted"
    /\ lastOp.op = "price_update"
    /\ isConnected
    /\ isAuthenticated
    /\ DOMAIN prices = Symbols

\* C29: in the legacy hook, while it is mounted, the step that processes a
\* close event with a code other than 1000 leaves a reconnect timer pending
\* for it; the step in which a reconnect timer fires creates a new
\* transport, which becomes the current one; and the step in which a
\* transport opens sends on it, when the symbol list is not empty, the
\* subscribe message of the current list and nothing else.
C29_HookReconnectsAndResubscribes ==
    [][ \A t \in Transports :
          /\ (lastOp'.op = "transportError" /\ lastOp'.ws = t
                 /\ phase = "mounted") => t \in timers'
          /\ (lastOp'.op \in {"closeEvent", "serverClose"} /\ lastOp'.ws = t
                 /\ lastOp'.code # 1000 /\ phase = "mounted") => t \in timers'
          /\ (lastOp'.op = "reconnectTimer" /\ lastOp'.ws = t) =>
                /\ t \notin timers'
                /\ nws' = nws + 1
                /\ wsRef' = nws'
                /\ sockets'[nws'].readyState = "CONNECTING"
          /\ (lastOp'.op = "open" /\ lastOp'.ws = t) =>
                /\ subscribedSymbols # <<>> => out' # <<>>
                /\ \A i \in DOMAIN out' :
                      out'[i] = [ws |-> t, action |-> "subscribe",
                                 symbols |-> subscribedSymbols] ]_vars

\* C29 witness: the first transport was lost, and a later transport has just
\* opened and was sent the list of two symbols.
C29_Witness ==
    /\ lastOp.op = "open"
    /\ lastOp.ws >= 2
    /\ sockets[1].readyState = "CLOSED"
    /\ 1 \notin timers
    /\ Len(subscribedSymbols) = 2
    /\ out # <<>>
    /\ out[1] = [ws |-> lastOp.ws, action |-> "subscribe",
                 symbols |-> subscribedSymbols]

\* C30: at most one transport created by the client is CONNECTING or OPEN at
\* any time.
C30_AtMostOneLiveTransport ==
    Cardinality({t \in Transports :
        sockets[t].readyState \in {"CONNECTING", "OPEN"}}) <= 1

\* C31: the step that processes the close event (with its error event, if
\* any) of a transport that a newer current transport has superseded leaves
\* wsRef and both in-progress guards as they were, leaves the client
\* connected and authenticated as it was if the newer transport is open, and
\* sets no reconnect timer.
C31_StaleCloseIsolated ==
    [][ \A t \in Transports :
          (lastOp'.op \in CloseOps /\ lastOp'.ws = t
              /\ wsRef # NoSocket /\ wsRef > t) =>
             /\ wsRef' = wsRef
             /\ connectionInProgress' = connectionInProgress
             /\ authenticationInProgress' = authenticationInProgress
             /\ sockets[wsRef].readyState = "OPEN" =>
                   /\ isConnected' = isConnected
                   /\ isAuthenticated' = isAuthenticated
             /\ timers' = timers
             /\ reconnectTimeoutRef' = reconnectTimeoutRef ]_vars

\* C32: the timeout of a handshake whose transport has closed does not fire
\* into a later handshake: while the handshake of another, open transport is
\* pending, it reports no error and leaves the authentication-in-progress
\* guard set.
C32_StaleAuthTimerIsolated ==
    [][ \A t \in Transports :
          (/\ lastOp'.op = "authTimeout" /\ lastOp'.ws = t
           /\ sockets[t].readyState = "CLOSED"
           /\ \E u \in Transports :
                 /\ u > t
                 /\ sockets[u].readyState = "OPEN"
                 /\ sockets[u].hs = "pending") =>
             /\ error' = error
             /\ authenticationInProgress' = authenticationInProgress ]_vars

\* C33: with a credential configured, a step makes the client authenticated,
\* or gives it a session token, only if it is the receipt of an
\* `authenticated` message on the current transport, that transport being
\* open with its handshake pending.
C33_AuthenticatedOnlyByHandshake ==
    [][ (/\ apiKey = Credential
         /\ \/ ~isAuthenticated /\ isAuthenticated'
            \/ sessionToken = "null" /\ sessionToken' # "null") =>
          \E t \in Transports :
             /\ lastOp' = Op("authenticated", t)
             /\ wsRef = t
             /\ sockets[t].readyState = "OPEN"
             /\ sockets[t].hs = "pending" ]_vars

\* C34: in every state, an authenticated client has a current transport
\* that is OPEN, and a client holding a session token is authenticated.
C34_AuthenticatedImpliesOpen ==
    /\ isAuthenticated =>
          (wsRef # NoSocket /\ sockets[wsRef].readyState = "OPEN")
    /\ sessionToken # "null" => isAuthenticated

\* C35: no subscribe or unsubscribe message lists a symbol twice.
C35_NoRepeatedSymbolInMessage ==
    out.action \in {"subscribe", "unsubscribe"} =>
       \A i, j \in DOMAIN out.symbols :
          out.symbols[i] = out.symbols[j] => i = j

\* C36: at most one reconnect timer is pending at any time, and a pending
\* timer is the one reconnectTimeoutRef names (the one teardown cancels).
C36_SingleReconnectTimer ==
    /\ Cardinality(timers) <= 1
    /\ timers \subseteq {reconnectTimeoutRef}

\* C37: the stored snapshot gets a new timestamp only in a step that
\* processes an inbound price update; mounting a provider that adopted the
\* stored snapshot leaves the stored item as it is.
C37_TimestampOnlyOnPriceUpdate ==
    [][ /\ (storage'.kind = "snapshot"
               /\ (storage.kind # "snapshot"
                      \/ storage'.timestamp # storage.timestamp)) =>
              lastOp'.op = "price_update"
        /\ lastOp'.op = "mount" => storage' = storage ]_vars

\* C38: every item the client writes to storage is a record of exactly the
\* fields of a snapshot, whose data is the price map (symbols to prices) and
\* whose timestamp is the time of writing: no session token and no
\* credential is part of it.
C38_OnlyPricesPersisted ==
    [][ storage' # storage =>
          /\ DOMAIN storage' = {"kind", "data", "timestamp"}
          /\ storage'.kind = "snapshot"
          /\ storage'.data = prices'
          /\ storage'.data \in PriceMaps
          /\ storage'.timestamp = now ]_vars

\* C38 witness: a client authenticated with its credential and holding a
\* session token has just processed a price update and stored the snapshot
\* of its two prices.
C38_Witness ==
    /\ apiKey = Credential
    /\ sessionToken = "tok"
    /\ isAuthenticated
    /\ lastOp.op = "price_update"
    /\ DOMAIN prices = Symbols
    /\ storage = Snapshot(prices, now)

====
